---- MODULE Spec2Model ----
(***************************************************************************)
(* Write-flow-ai: the grammar-check hook (useGrammarCheck) and the Editor  *)
(* page that accepts, rejects and applies its suggestions.                 *)
(*                                                                         *)
(* A text is a sequence of one-character strings; offsets are 0-based as   *)
(* in the source, so the character at offset k of text t is t[k + 1].      *)
(***************************************************************************)
EXTENDS Integers, Sequences, FiniteSets, TLC

\* ------------------------------------------------------------------------
\* Characters and the JavaScript string functions the code uses
\* ------------------------------------------------------------------------

LowerAlpha == <<"a","b","c","d","e","f","g","h","i","j","k","l","m",
                "n","o","p","q","r","s","t","u","v","w","x","y","z">>

UpperAlpha == <<"A","B","C","D","E","F","G","H","I","J","K","L","M",
                "N","O","P","Q","R","S","T","U","V","W","X","Y","Z">>

Digits == {"0","1","2","3","4","5","6","7","8","9"}

WordChars ==
    {LowerAlpha[i] : i \in DOMAIN LowerAlpha}
        \cup {UpperAlpha[i] : i \in DOMAIN UpperAlpha}
        \cup Digits \cup {"_"}

\* \w of a JavaScript regular expression: [A-Za-z0-9_]
IsWordChar(c) == c \in WordChars

\* the white space String.prototype.trim removes (space, tab, line breaks)
IsSpace(c) == c \in {" ", "\t", "\n", "\r"}

UpperChars == {UpperAlpha[i] : i \in DOMAIN UpperAlpha}

LowerOf ==
    [c \in UpperChars |->
        LowerAlpha[CHOOSE i \in DOMAIN UpperAlpha : UpperAlpha[i] = c]]

ToLowerChar(c) == IF c \in UpperChars THEN LowerOf[c] ELSE c

\* String.prototype.toLowerCase
ToLowerCase(s) == [i \in 1..Len(s) |-> ToLowerChar(s[i])]

Min(a, b) == IF a < b THEN a ELSE b

Max(a, b) == IF a > b THEN a ELSE b

Abs(n) == IF n < 0 THEN 0 - n ELSE n

\* String.prototype.substring(a, b): both ends clamped to [0, length] and
\* swapped when a > b
Substring(s, a, b) ==
    LET ca == Max(0, Min(a, Len(s)))
        cb == Max(0, Min(b, Len(s)))
    IN  SubSeq(s, Min(ca, cb) + 1, Max(ca, cb))

\* String.prototype.substring(a): from a to the end
SubstringFrom(s, a) == Substring(s, a, Len(s))

\* String.prototype.trim
Trim(s) ==
    LET keep == {i \in 1..Len(s) : ~IsSpace(s[i])}
    IN  IF keep = {} THEN << >>
        ELSE LET lo == CHOOSE i \in keep : \A j \in keep : i <= j
                 hi == CHOOSE i \in keep : \A j \in keep : i >= j
             IN  SubSeq(s, lo, hi)

\* content.trim().split(/\s+/).filter(word => word.length > 0).length:
\* the number of maximal runs of non-space characters
WordCount(s) ==
    Cardinality({i \in 1..Len(s) :
                    /\ ~IsSpace(s[i])
                    /\ (i = 1 \/ IsSpace(s[i - 1]))})

\* ------------------------------------------------------------------------
\* findWordBoundaries: new RegExp(`\\b${escaped}\\b`, 'gi') and the
\* while ((match = regex.exec(text)) !== null) loop
\* ------------------------------------------------------------------------

\* the assertion \b at offset p of text
IsBoundaryAt(text, p) ==
    LET before == p >= 1 /\ p <= Len(text) /\ IsWordChar(text[p])
        after  == p >= 0 /\ p < Len(text) /\ IsWordChar(text[p + 1])
    IN  before # after

\* RegexMatchesAt with the trailing \b left out of the pattern
RegexMatchesAtNoTrailingBoundary(text, searchWord, i) ==
    /\ i >= 0
    /\ i + Len(searchWord) <= Len(text)
    /\ IsBoundaryAt(text, i)
    /\ \A k \in 1..Len(searchWord) :
          ToLowerChar(text[i + k]) = ToLowerChar(searchWord[k])

\* RegexMatchesAt of a pattern that takes any characters between the two
\* boundaries
RegexMatchesAtAnyCharacters(text, searchWord, i) ==
    /\ i >= 0
    /\ i + Len(searchWord) <= Len(text)
    /\ IsBoundaryAt(text, i)
    /\ IsBoundaryAt(text, i + Len(searchWord))

\* the pattern \b<word>\b matches at offset i of text, ignoring case; every
\* character of the word is escaped by the code, so it stands for itself
RegexMatchesAt(text, searchWord, i) ==
    /\ i >= 0
    /\ i + Len(searchWord) <= Len(text)
    /\ IsBoundaryAt(text, i)
    /\ \A k \in 1..Len(searchWord) :
          ToLowerChar(text[i + k]) = ToLowerChar(searchWord[k])
    /\ IsBoundaryAt(text, i + Len(searchWord))

NoMatch == -1

\* regex.exec(text) with the g flag: the leftmost match at or after
\* lastIndex, or null
RegexExec(text, searchWord, lastIndex) ==
    LET Leftmost(at) ==
            IF at = {} THEN NoMatch
            ELSE CHOOSE i \in at : \A j \in at : i <= j
    IN  Leftmost({i \in lastIndex..Len(text) :
                     RegexMatchesAt(text, searchWord, i)})

\* The exec loop from lastIndex with the matches pushed so far. exec sets
\* lastIndex to the end of the match; an empty match found at lastIndex
\* leaves lastIndex where it was, so the next exec returns the same match
\* and the loop never exits: returned = FALSE.
RECURSIVE ExecLoop(_, _, _, _)
ExecLoop(text, searchWord, lastIndex, matches) ==
    LET Push(m) ==
            IF m.end = lastIndex
            THEN [returned |-> FALSE, matches |-> Append(matches, m)]
            ELSE ExecLoop(text, searchWord, m.end, Append(matches, m))
        Exec(i) ==
            IF i = NoMatch THEN [returned |-> TRUE, matches |-> matches]
            ELSE Push([start |-> i, end |-> i + Len(searchWord),
                       text |-> Substring(text, i, i + Len(searchWord))])
    IN  Exec(RegexExec(text, searchWord, lastIndex))

\* const searchWord = word.toLowerCase().trim()
SearchWord(word) == Trim(ToLowerCase(word))

findWordBoundaries(text, word) ==
    ExecLoop(text, SearchWord(word), 0, << >>)

\* ------------------------------------------------------------------------
\* Suggestions and the reconciliation done by the two accept handlers
\* ------------------------------------------------------------------------

\* a suggestion as the hook stores it; the explanation is never read by the
\* accept handlers
Sugg(id, start, end, original, correction) ==
    [id |-> id, position |-> [start |-> start, end |-> end],
     original |-> original, correction |-> correction,
     explanation |-> <<"e">>]

\* ClosestFrom taking a later match that is as near as the nearest so far
RECURSIVE ClosestFromLastWins(_, _, _, _)
ClosestFromLastWins(wordMatches, hintStart, k, closestMatch) ==
    IF k > Len(wordMatches) THEN closestMatch
    ELSE IF Abs(wordMatches[k].start - hintStart)
              <= Abs(closestMatch.start - hintStart)
         THEN ClosestFromLastWins(wordMatches, hintStart, k + 1,
                                  wordMatches[k])
         ELSE ClosestFromLastWins(wordMatches, hintStart, k + 1,
                                  closestMatch)

\* the loop that keeps the first match of least distance to the stated start
RECURSIVE ClosestFrom(_, _, _, _)
ClosestFrom(wordMatches, hintStart, k, closestMatch) ==
    IF k > Len(wordMatches) THEN closestMatch
    ELSE IF Abs(wordMatches[k].start - hintStart)
              < Abs(closestMatch.start - hintStart)
         THEN ClosestFrom(wordMatches, hintStart, k + 1, wordMatches[k])
         ELSE ClosestFrom(wordMatches, hintStart, k + 1, closestMatch)

ClosestMatch(wordMatches, hintStart) ==
    ClosestFrom(wordMatches, hintStart, 1, wordMatches[1])

\* startSearchPos: number = 0, and no caller passes a third argument
DefaultStartSearchPos == 0

\* one call of findWordBoundaries: what it was given and what it returned
LocateCall(text, word, hintStart) ==
    LET Called(found) ==
            [text |-> text, word |-> word, hint |-> hintStart,
             returned |-> found.returned, matches |-> found.matches]
    IN  Called(findWordBoundaries(text, word))

Resolved(kind, start, end, calls) ==
    [kind |-> kind, start |-> start, end |-> end, calls |-> calls]

\* ReconcileOne searching the word first, as the accept-all handler does,
\* instead of trusting a span that matches
ReconcileOneByLocate(content, suggestion) ==
    LET pos == suggestion.position
        call == LocateCall(content, suggestion.original,
                          DefaultStartSearchPos)
        closest == ClosestMatch(call.matches, pos.start)
    IN  IF pos.start < 0 \/ pos.end > Len(content) \/ pos.start >= pos.end
        THEN Resolved("invalid", -1, -1, << >>)
        ELSE IF ~call.returned
        THEN Resolved("hang", -1, -1, << call >>)
        ELSE IF Len(call.matches) > 0
        THEN Resolved("found", closest.start, closest.end, << call >>)
        ELSE Resolved("notfound", -1, -1, << call >>)

\* ReconcileOne without the foundMatch check: a search that finds nothing
\* falls through to the stated span
ReconcileOneTrustsSpan(content, suggestion) ==
    LET pos == suggestion.position
        actualText == Substring(content, pos.start, pos.end)
        call == LocateCall(content, suggestion.original,
                          DefaultStartSearchPos)
        closest == ClosestMatch(call.matches, pos.start)
    IN  IF pos.start < 0 \/ pos.end > Len(content) \/ pos.start >= pos.end
        THEN Resolved("invalid", -1, -1, << >>)
        ELSE IF actualText = suggestion.original
        THEN Resolved("found", pos.start, pos.end, << >>)
        ELSE IF Trim(ToLowerCase(actualText))
                  = Trim(ToLowerCase(suggestion.original))
        THEN Resolved("found", pos.start, pos.end, << >>)
        ELSE IF ~call.returned
        THEN Resolved("hang", -1, -1, << call >>)
        ELSE IF Len(call.matches) > 0
        THEN Resolved("found", closest.start, closest.end, << call >>)
        ELSE Resolved("found", pos.start, pos.end, << call >>)

\* ReconcileOne without the search for the word: a span that does not
\* match is given up
ReconcileOneNoRelocate(content, suggestion) ==
    LET pos == suggestion.position
        actualText == Substring(content, pos.start, pos.end)
    IN  IF pos.start < 0 \/ pos.end > Len(content) \/ pos.start >= pos.end
        THEN Resolved("invalid", -1, -1, << >>)
        ELSE IF actualText = suggestion.original
        THEN Resolved("found", pos.start, pos.end, << >>)
        ELSE IF Trim(ToLowerCase(actualText))
                  = Trim(ToLowerCase(suggestion.original))
        THEN Resolved("found", pos.start, pos.end, << >>)
        ELSE Resolved("notfound", -1, -1, << >>)

\* ReconcileOne without the check of the position bounds
ReconcileOneNoBoundsCheck(content, suggestion) ==
    LET pos == suggestion.position
        Moved(call, closestMatch) ==
            Resolved("found", closestMatch.start, closestMatch.end,
                     << call >>)
        Relocate(call) ==
            IF ~call.returned
            THEN Resolved("hang", -1, -1, << call >>)
            ELSE IF Len(call.matches) > 0
            THEN Moved(call, ClosestMatch(call.matches, pos.start))
            ELSE Resolved("notfound", -1, -1, << call >>)
        Tiers(actualText) ==
            IF actualText = suggestion.original
            THEN Resolved("found", pos.start, pos.end, << >>)
            ELSE IF Trim(ToLowerCase(actualText))
                      = Trim(ToLowerCase(suggestion.original))
            THEN Resolved("found", pos.start, pos.end, << >>)
            ELSE Relocate(LocateCall(content, suggestion.original,
                                     DefaultStartSearchPos))
    IN  Tiers(Substring(content, pos.start, pos.end))

\* handleAcceptSuggestion up to the decision: "invalid" (position bounds),
\* "found" with the corrected position, "notfound", or "hang" when the
\* search loop of findWordBoundaries never returns
ReconcileOne(content, suggestion) ==
    LET pos == suggestion.position
        Moved(call, closestMatch) ==
            Resolved("found", closestMatch.start, closestMatch.end,
                     << call >>)
        Relocate(call) ==
            IF ~call.returned
            THEN Resolved("hang", -1, -1, << call >>)
            ELSE IF Len(call.matches) > 0
            THEN Moved(call, ClosestMatch(call.matches, pos.start))
            ELSE Resolved("notfound", -1, -1, << call >>)
        Tiers(actualText) ==
            IF actualText = suggestion.original
            THEN Resolved("found", pos.start, pos.end, << >>)
            ELSE IF Trim(ToLowerCase(actualText))
                      = Trim(ToLowerCase(suggestion.original))
            THEN Resolved("found", pos.start, pos.end, << >>)
            ELSE Relocate(LocateCall(content, suggestion.original,
                                     DefaultStartSearchPos))
    IN  IF pos.start < 0 \/ pos.end > Len(content) \/ pos.start >= pos.end
        THEN Resolved("invalid", -1, -1, << >>)
        ELSE Tiers(Substring(content, pos.start, pos.end))

\* beforeText + suggestion.correction + afterText
Splice(content, start, end, correction) ==
    Substring(content, 0, start) \o correction \o SubstringFrom(content, end)

\* the text handleAcceptSuggestion passes to setContent (the text is left
\* as it was on every other path)
ApplyOneText(content, suggestion) ==
    LET Applied(r) ==
            IF r.kind = "found"
            THEN Splice(content, r.start, r.end, suggestion.correction)
            ELSE content
    IN  Applied(ReconcileOne(content, suggestion))

\* [...suggestions].sort((a, b) => b.position.start - a.position.start):
\* Array.prototype.sort is stable
RECURSIVE InsertDescending(_, _)
InsertDescending(sorted, s) ==
    IF sorted = << >> THEN << s >>
    ELSE IF sorted[Len(sorted)].position.start >= s.position.start
         THEN Append(sorted, s)
         ELSE Append(InsertDescending(SubSeq(sorted, 1, Len(sorted) - 1), s),
                     sorted[Len(sorted)])

RECURSIVE SortDescendingFrom(_, _, _)
SortDescendingFrom(list, k, sorted) ==
    IF k > Len(list) THEN sorted
    ELSE SortDescendingFrom(list, k + 1, InsertDescending(sorted, list[k]))

SortDescending(list) == SortDescendingFrom(list, 1, << >>)

\* ApplyAllStep counting a suggestion it found no match for
ApplyAllStepCountsSkips(acc, suggestion) ==
    LET Spliced(called, closestMatch) ==
            [called EXCEPT
                !.newContent = Splice(acc.newContent, closestMatch.start,
                                      closestMatch.end,
                                      suggestion.correction),
                !.appliedCount = acc.appliedCount + 1]
        Step(call, called) ==
            IF ~call.returned
            THEN [called EXCEPT !.returned = FALSE]
            ELSE IF Len(call.matches) > 0
            THEN Spliced(called, ClosestMatch(call.matches,
                                              suggestion.position.start))
            ELSE [called EXCEPT !.appliedCount = acc.appliedCount + 1]
        Located(call) ==
            Step(call, [acc EXCEPT !.calls = Append(acc.calls, call)])
    IN  IF ~acc.returned THEN acc
        ELSE Located(LocateCall(acc.newContent, suggestion.original,
                                DefaultStartSearchPos))

\* one pass of the forEach of handleAcceptAllSuggestions
ApplyAllStep(acc, suggestion) ==
    LET Spliced(called, closestMatch) ==
            [called EXCEPT
                !.newContent = Splice(acc.newContent, closestMatch.start,
                                      closestMatch.end,
                                      suggestion.correction),
                !.appliedCount = acc.appliedCount + 1]
        Step(call, called) ==
            IF ~call.returned
            THEN [called EXCEPT !.returned = FALSE]
            ELSE IF Len(call.matches) > 0
            THEN Spliced(called, ClosestMatch(call.matches,
                                              suggestion.position.start))
            ELSE called
        Located(call) ==
            Step(call, [acc EXCEPT !.calls = Append(acc.calls, call)])
    IN  IF ~acc.returned THEN acc
        ELSE Located(LocateCall(acc.newContent, suggestion.original,
                                DefaultStartSearchPos))

RECURSIVE ApplyAllFrom(_, _, _)
ApplyAllFrom(sortedSuggestions, k, acc) ==
    IF k > Len(sortedSuggestions) THEN acc
    ELSE ApplyAllFrom(sortedSuggestions, k + 1,
                      ApplyAllStep(acc, sortedSuggestions[k]))

\* handleAcceptAllSuggestions up to the decision: newContent, appliedCount,
\* the findWordBoundaries calls made, and returned = FALSE when one of them
\* never returns
ApplyAll(content, list) ==
    ApplyAllFrom(SortDescending(list), 1,
                 [newContent |-> content, appliedCount |-> 0,
                  returned |-> TRUE, calls |-> << >>])

\* ------------------------------------------------------------------------
\* The filter chain of checkText (validation of the remote response)
\* ------------------------------------------------------------------------

\* a value JavaScript treats as true in `a && b`: a non-empty string
Truthy(str) == str # << >>

\* suggestion && suggestion.position && typeof position.start === 'number'
\* && typeof position.end === 'number': a raw entry says in `shaped` whether
\* it is an object with a position of two numbers
HasNumericPosition(raw) == raw.shaped

\* PassesFilter without the comparison of original and correction
PassesFilterKeepsNoOps(raw, text) ==
    /\ HasNumericPosition(raw)
    /\ raw.position.start >= 0
    /\ raw.position.end <= Len(text)
    /\ raw.position.start < raw.position.end
    /\ Truthy(raw.original)
    /\ Truthy(raw.correction)
    /\ Truthy(raw.explanation)

\* the first .filter of checkText
PassesFilter(raw, text) ==
    /\ HasNumericPosition(raw)
    /\ raw.position.start >= 0
    /\ raw.position.end <= Len(text)
    /\ raw.position.start < raw.position.end
    /\ Truthy(raw.original)
    /\ Truthy(raw.correction)
    /\ Truthy(raw.explanation)
    /\ raw.original # raw.correction

RECURSIVE FilterSeq(_, _, _)
FilterSeq(list, text, k) ==
    IF k > Len(list) THEN << >>
    ELSE IF PassesFilter(list[k], text)
         THEN << list[k] >> \o FilterSeq(list, text, k + 1)
         ELSE FilterSeq(list, text, k + 1)

\* the .map: the id is `suggestion-${Date.now()}-${index}`, index being the
\* place in the filtered array (the clock part is the same for the whole
\* batch, and a batch replaces the stored one, so the index tells the ids
\* apart); the position bounds are clamped to [0, text.length]
WithId(raw, text, index) ==
    [id |-> index,
     position |->
        [start |-> Max(0, Min(raw.position.start, Len(text))),
         end   |-> Max(0, Min(raw.position.end, Len(text)))],
     original |-> raw.original,
     correction |-> raw.correction,
     explanation |-> raw.explanation]

MapIds(list, text) ==
    [k \in 1..Len(list) |-> WithId(list[k], text, k - 1)]

\* the second .filter: drop an entry when an earlier entry of the mapped
\* array has the same start, end and original
IsDuplicate(list, k) ==
    \E j \in 1..(k - 1) :
        /\ list[j].position.start = list[k].position.start
        /\ list[j].position.end = list[k].position.end
        /\ list[j].original = list[k].original

RECURSIVE DedupFrom(_, _)
DedupFrom(list, k) ==
    IF k > Len(list) THEN << >>
    ELSE IF IsDuplicate(list, k) THEN DedupFrom(list, k + 1)
         ELSE << list[k] >> \o DedupFrom(list, k + 1)

\* InsertAscending of a sort that is not stable: an entry goes before the
\* entries of equal start
RECURSIVE InsertAscendingUnstable(_, _)
InsertAscendingUnstable(sorted, s) ==
    IF sorted = << >> THEN << s >>
    ELSE IF sorted[Len(sorted)].position.start < s.position.start
         THEN Append(sorted, s)
         ELSE Append(InsertAscendingUnstable(
                         SubSeq(sorted, 1, Len(sorted) - 1), s),
                     sorted[Len(sorted)])

\* .sort((a, b) => a.position.start - b.position.start), a stable sort
RECURSIVE InsertAscending(_, _)
InsertAscending(sorted, s) ==
    IF sorted = << >> THEN << s >>
    ELSE IF sorted[Len(sorted)].position.start <= s.position.start
         THEN Append(sorted, s)
         ELSE Append(InsertAscending(SubSeq(sorted, 1, Len(sorted) - 1), s),
                     sorted[Len(sorted)])

RECURSIVE SortAscendingFrom(_, _, _)
SortAscendingFrom(list, k, sorted) ==
    IF k > Len(list) THEN sorted
    ELSE SortAscendingFrom(list, k + 1, InsertAscending(sorted, list[k]))

SortAscending(list) == SortAscendingFrom(list, 1, << >>)

\* suggestionsWithIds: filter, map, filter, sort
Validate(rawList, text) ==
    SortAscending(DedupFrom(MapIds(FilterSeq(rawList, text, 1), text), 1))

\* ------------------------------------------------------------------------
\* State of the Editor page and of the useGrammarCheck hook
\* ------------------------------------------------------------------------

VARIABLES
    content,                     \* Editor: content
    editorLastAnalyzedText,      \* Editor: lastAnalyzedText (set on load only)
    isProcessingSuggestions,     \* Editor: isProcessingSuggestions
    suggestions,                 \* hook: suggestions
    isChecking,                  \* hook: isChecking
    hookLastAnalyzedText,        \* hook: lastAnalyzedText
    hookIsProcessingSuggestions, \* hook: isProcessingSuggestions
    hasCompletedAnalysis,        \* hook: hasCompletedAnalysis
    pendingCheck,                \* the debounced call waiting on the current checkText
    orphanChecks,                \* debounced calls waiting on earlier checkText instances
    inFlight,                    \* texts of the requests awaiting their response
    finishTimers,                \* pending setTimeout(..., 500) callbacks
    toast,                       \* title of the toast the last step raised
    hung,                        \* a handler is stuck in a loop that never exits
    isLoading,                   \* Editor: isLoading
    gestures,                    \* the user's keystrokes and clicks so far
    last                         \* what the step that led here was given and decided

vars == <<content, editorLastAnalyzedText, isProcessingSuggestions,
          suggestions, isChecking, hookLastAnalyzedText,
          hookIsProcessingSuggestions, hasCompletedAnalysis, pendingCheck,
          orphanChecks, inFlight, finishTimers, toast, hung, isLoading,
          gestures, last>>

NoCall == [pending |-> FALSE, text |-> << >>]

Call(text) == [pending |-> TRUE, text |-> text]

\* the values the hook keeps, the page's content, and the debounced calls
Rendered ==
    [content |-> content,
     suggestions |-> suggestions,
     isChecking |-> isChecking,
     lastAnalyzedText |-> hookLastAnalyzedText,
     isProcessing |-> hookIsProcessingSuggestions,
     hasCompletedAnalysis |-> hasCompletedAnalysis,
     pendingCheck |-> pendingCheck,
     orphanChecks |-> orphanChecks]

\* the dependency list of the useCallback that builds checkText (toast is
\* the same function on every render)
CheckTextDeps(r) ==
    <<r.lastAnalyzedText, r.isProcessing, r.hasCompletedAnalysis>>

\* the two early returns at the head of checkText, decided by the values
\* the instance closed over at the render r
ReturnsEarly(text, r) ==
    \/ r.isProcessing
    \/ text = r.lastAnalyzedText /\ r.hasCompletedAnalysis

\* a debounced call left waiting on a checkText instance that a render
\* replaced: it still fires, and what it closed over has already decided
\* whether it returns early
Orphan(text, r) == [text |-> text, returnsEarly |-> ReturnsEarly(text, r)]

StaleWordTolerance == 3

MinEditorChars == 20

MinEditorWords == 5

MinCheckChars == 10

MinCheckWords == 3

\* resetForNewText
ResetForNewText(r) ==
    [r EXCEPT !.lastAnalyzedText = << >>,
              !.isProcessing = FALSE,
              !.hasCompletedAnalysis = FALSE,
              !.suggestions = << >>]

\* the condition of the effect "Track content changes", lastText being the
\* page's own lastAnalyzedText
WordCountMoved(text, lastText) ==
    Abs(WordCount(text) - WordCount(lastText)) > StaleWordTolerance

\* the condition of the effect "Grammar checking" (user and docId are set)
WantsCheck(r) ==
    /\ Len(r.content) > 0
    /\ Len(Trim(r.content)) > MinEditorChars
    /\ ~r.hasCompletedAnalysis
    /\ WordCount(r.content) >= MinEditorWords

\* The render that follows a handler and the effects it runs, state updates
\* of one handler being batched. old is what the last render saw, new what
\* the handler set. A render builds a new checkText when its dependencies
\* changed; the call waiting on the old one is not cancelled. The effect
\* "Track content changes" runs when content changed, the effect "Grammar
\* checking" when content, checkText or hasCompletedAnalysis changed; when
\* the first one resets the hook, a second render follows. lastText is the
\* page's own lastAnalyzedText as this render sees it.
RunEffects(old, new, lastText) ==
    LET changed1 == CheckTextDeps(new) # CheckTextDeps(old)
        contentChanged == new.content # old.content
        orphans1 ==
            IF changed1 /\ new.pendingCheck.pending
            THEN new.orphanChecks \cup {Orphan(new.pendingCheck.text, old)}
            ELSE new.orphanChecks
        pending0 == IF changed1 THEN NoCall ELSE new.pendingCheck
        pending1 ==
            IF (contentChanged \/ changed1) /\ WantsCheck(new)
            THEN Call(new.content)
            ELSE pending0
        reset == contentChanged /\ WordCountMoved(new.content, lastText)
        afterReset == ResetForNewText(new)
        changed2 == reset /\ CheckTextDeps(afterReset) # CheckTextDeps(new)
        orphans2 ==
            IF changed2 /\ pending1.pending
            THEN orphans1 \cup {Orphan(pending1.text, new)}
            ELSE orphans1
        pending2 ==
            IF changed2
            THEN IF WantsCheck(afterReset) THEN Call(new.content) ELSE NoCall
            ELSE pending1
    IN  [(IF reset THEN afterReset ELSE new) EXCEPT
            !.pendingCheck = pending2,
            !.orphanChecks = orphans2]

MaxOrphans == 1

\* the state after a handler that set `new` and left the page's own
\* lastAnalyzedText at lastText, its render and its effects
CommitWith(new, lastText) ==
    LET Set(r) ==
            /\ Cardinality(r.orphanChecks) <= MaxOrphans
            /\ content' = r.content
            /\ suggestions' = r.suggestions
            /\ isChecking' = r.isChecking
            /\ hookLastAnalyzedText' = r.lastAnalyzedText
            /\ hookIsProcessingSuggestions' = r.isProcessing
            /\ hasCompletedAnalysis' = r.hasCompletedAnalysis
            /\ pendingCheck' = r.pendingCheck
            /\ orphanChecks' = r.orphanChecks
    IN  Set(RunEffects(Rendered, new, lastText))

\* the same for the handlers that leave the page's lastAnalyzedText alone
Commit(new) == CommitWith(new, editorLastAnalyzedText)

\* ------------------------------------------------------------------------
\* Handlers of the Editor page
\* ------------------------------------------------------------------------

MaxFinishTimers == 2

MaxInFlight == 2

MaxGestures == 3

\* what a handler was given (the text it saw, the suggestions or the raw
\* response), what it decided, and whether a processing flag was set when
\* it started
Last(op, text, args, kind, start, end, newText, appliedCount, busy, calls) ==
    [op |-> op, text |-> text, args |-> args, kind |-> kind,
     start |-> start, end |-> end, newText |-> newText,
     appliedCount |-> appliedCount, busy |-> busy, calls |-> calls]

NoLast == Last("none", << >>, << >>, "none", -1, -1, << >>, 0, FALSE, << >>)

Busy == isProcessingSuggestions \/ hookIsProcessingSuggestions

\* prev.filter(s => s.id !== suggestionId)
RECURSIVE RemoveById(_, _)
RemoveById(list, id) ==
    IF list = << >> THEN << >>
    ELSE IF list[1].id = id THEN RemoveById(Tail(list), id)
         ELSE << list[1] >> \o RemoveById(Tail(list), id)

\* loadDocument, once the row has arrived
LoadDocument(text) ==
    /\ ~hung
    /\ isLoading
    /\ isLoading' = FALSE
    /\ editorLastAnalyzedText' = text
    /\ CommitWith([Rendered EXCEPT !.content = text], text)
    /\ toast' = "none"
    /\ last' = NoLast
    /\ UNCHANGED <<isProcessingSuggestions, inFlight, finishTimers, hung,
                   gestures>>

\* onInput of the editing surface
Input(text) ==
    /\ ~hung
    /\ ~isLoading
    /\ text # content
    /\ gestures < MaxGestures
    /\ gestures' = gestures + 1
    /\ Commit([Rendered EXCEPT !.content = text])
    /\ toast' = "none"
    /\ last' = NoLast
    /\ UNCHANGED <<editorLastAnalyzedText, isProcessingSuggestions, inFlight,
                   finishTimers, hung, isLoading>>

\* handleAcceptSuggestion for one card of the list
HandleAcceptSuggestion(k) ==
    LET Accept(suggestion, r, newContent) ==
            /\ last' = Last("acceptOne", content, << suggestion >>, r.kind,
                            r.start, r.end, newContent,
                            IF r.kind = "found" THEN 1 ELSE 0, Busy, r.calls)
            /\ IF r.kind = "hang"
               THEN /\ hung' = TRUE
                    /\ UNCHANGED <<content, editorLastAnalyzedText,
                                   isProcessingSuggestions, suggestions,
                                   isChecking, hookLastAnalyzedText,
                                   hookIsProcessingSuggestions,
                                   hasCompletedAnalysis, pendingCheck,
                                   orphanChecks, inFlight, finishTimers,
                                   toast, isLoading>>
               ELSE IF r.kind = "found"
               THEN /\ finishTimers < MaxFinishTimers
                    /\ isProcessingSuggestions' = TRUE
                    /\ Commit([Rendered EXCEPT
                                  !.content = newContent,
                                  !.suggestions = RemoveById(suggestions,
                                                             suggestion.id),
                                  !.isProcessing = TRUE])
                    /\ finishTimers' = finishTimers + 1
                    /\ toast' = "Suggestion applied"
                    /\ UNCHANGED <<editorLastAnalyzedText, inFlight, hung,
                                   isLoading>>
               ELSE \* invalid position or no match: the hook's flag is
                    \* reset at once, the page's own flag stays set
                    /\ isProcessingSuggestions' = TRUE
                    /\ Commit([Rendered EXCEPT !.isProcessing = FALSE])
                    /\ toast' = IF r.kind = "invalid"
                                THEN "Error: invalid position"
                                ELSE "Error: text has changed"
                    /\ UNCHANGED <<editorLastAnalyzedText, inFlight,
                                   finishTimers, hung, isLoading>>
        Decided(suggestion, r) ==
            Accept(suggestion, r,
                   IF r.kind = "found"
                   THEN Splice(content, r.start, r.end,
                               suggestion.correction)
                   ELSE content)
    IN  /\ ~hung
        /\ ~isLoading
        /\ k \in 1..Len(suggestions)
        /\ gestures < MaxGestures
        /\ gestures' = gestures + 1
        /\ Decided(suggestions[k], ReconcileOne(content, suggestions[k]))

\* handleRejectSuggestion
HandleRejectSuggestion(k) ==
    /\ ~hung
    /\ ~isLoading
    /\ k \in 1..Len(suggestions)
    /\ last' = Last("reject", content, << suggestions[k] >>, "removed", -1, -1,
                    content, 0, Busy, << >>)
    /\ Commit([Rendered EXCEPT
                  !.suggestions = RemoveById(suggestions, suggestions[k].id)])
    /\ toast' = "Suggestion rejected"
    /\ gestures < MaxGestures
    /\ gestures' = gestures + 1
    /\ UNCHANGED <<editorLastAnalyzedText, isProcessingSuggestions, inFlight,
                   finishTimers, hung, isLoading>>

\* HandleAcceptAllSuggestions emptying the list only, not what the hook
\* remembers of the analysis
HandleAcceptAllKeepsAnalysis ==
    LET AcceptAll(r) ==
            /\ last' = Last("acceptAll", content, suggestions,
                            IF ~r.returned THEN "hang"
                            ELSE IF r.appliedCount > 0 THEN "found"
                            ELSE "notfound",
                            -1, -1, r.newContent, r.appliedCount, Busy,
                            r.calls)
            /\ IF ~r.returned
               THEN /\ hung' = TRUE
                    /\ UNCHANGED <<content, editorLastAnalyzedText,
                                   isProcessingSuggestions, suggestions,
                                   isChecking, hookLastAnalyzedText,
                                   hookIsProcessingSuggestions,
                                   hasCompletedAnalysis, pendingCheck,
                                   orphanChecks, inFlight, finishTimers,
                                   toast, isLoading>>
               ELSE /\ finishTimers < MaxFinishTimers
                    /\ isProcessingSuggestions' = TRUE
                    /\ IF r.appliedCount > 0
                       THEN /\ Commit([Rendered EXCEPT
                                          !.content = r.newContent,
                                          !.suggestions = << >>,
                                          !.isProcessing = TRUE])
                            /\ toast' = "All suggestions applied"
                       ELSE /\ Commit([Rendered EXCEPT
                                          !.isProcessing = TRUE])
                            /\ toast' = "No suggestions applied"
                    /\ finishTimers' = finishTimers + 1
                    /\ UNCHANGED <<editorLastAnalyzedText, inFlight, hung,
                                   isLoading>>
    IN  /\ ~hung
        /\ ~isLoading
        /\ Len(suggestions) > 0
        /\ ~isProcessingSuggestions
        /\ gestures < MaxGestures
        /\ gestures' = gestures + 1
        /\ AcceptAll(ApplyAll(content, suggestions))

\* handleAcceptAllSuggestions; the button is rendered while the list is not
\* empty and disabled while the page's isProcessingSuggestions is set
HandleAcceptAllSuggestions ==
    LET AcceptAll(r) ==
            /\ last' = Last("acceptAll", content, suggestions,
                            IF ~r.returned THEN "hang"
                            ELSE IF r.appliedCount > 0 THEN "found"
                            ELSE "notfound",
                            -1, -1, r.newContent, r.appliedCount, Busy,
                            r.calls)
            /\ IF ~r.returned
               THEN /\ hung' = TRUE
                    /\ UNCHANGED <<content, editorLastAnalyzedText,
                                   isProcessingSuggestions, suggestions,
                                   isChecking, hookLastAnalyzedText,
                                   hookIsProcessingSuggestions,
                                   hasCompletedAnalysis, pendingCheck,
                                   orphanChecks, inFlight, finishTimers,
                                   toast, isLoading>>
               ELSE /\ finishTimers < MaxFinishTimers
                    /\ isProcessingSuggestions' = TRUE
                    /\ IF r.appliedCount > 0
                       THEN /\ Commit([Rendered EXCEPT
                                          !.content = r.newContent,
                                          !.suggestions = << >>,
                                          !.lastAnalyzedText = << >>,
                                          !.hasCompletedAnalysis = FALSE,
                                          !.isProcessing = TRUE])
                            /\ toast' = "All suggestions applied"
                       ELSE /\ Commit([Rendered EXCEPT
                                          !.isProcessing = TRUE])
                            /\ toast' = "No suggestions applied"
                    /\ finishTimers' = finishTimers + 1
                    /\ UNCHANGED <<editorLastAnalyzedText, inFlight, hung,
                                   isLoading>>
    IN  /\ ~hung
        /\ ~isLoading
        /\ Len(suggestions) > 0
        /\ ~isProcessingSuggestions
        /\ gestures < MaxGestures
        /\ gestures' = gestures + 1
        /\ AcceptAll(ApplyAll(content, suggestions))

\* the callback of setTimeout(..., 500) of the two accept handlers
FinishProcessing ==
    /\ ~hung
    /\ finishTimers > 0
    /\ finishTimers' = finishTimers - 1
    /\ isProcessingSuggestions' = FALSE
    /\ Commit([Rendered EXCEPT !.isProcessing = FALSE])
    /\ toast' = "none"
    /\ last' = NoLast
    /\ UNCHANGED <<editorLastAnalyzedText, inFlight, hung, isLoading,
                   gestures>>

\* ------------------------------------------------------------------------
\* checkText: the debounced body and the continuation after the response
\* ------------------------------------------------------------------------

\* the body up to the await, returnsEarly being what the values its
\* checkText instance closed over decide: what it sets, and whether it
\* sends the request
CheckTextBody(text, returnsEarly, r) ==
    IF returnsEarly
    THEN [sends |-> FALSE, state |-> r]
    ELSE IF ~Truthy(text) \/ Len(Trim(text)) < MinCheckChars
              \/ WordCount(text) < MinCheckWords
    THEN [sends |-> FALSE,
          state |-> [r EXCEPT !.suggestions = << >>,
                              !.lastAnalyzedText = << >>,
                              !.hasCompletedAnalysis = FALSE]]
    ELSE [sends |-> TRUE,
          state |-> [r EXCEPT !.isChecking = TRUE,
                              !.hasCompletedAnalysis = FALSE]]

CheckFires(text, returnsEarly, r) ==
    LET Ran(b) ==
            /\ IF b.sends
               THEN /\ Len(inFlight) < MaxInFlight
                    /\ inFlight' = Append(inFlight, text)
               ELSE inFlight' = inFlight
            /\ Commit(b.state)
    IN  /\ ~hung
        /\ Ran(CheckTextBody(text, returnsEarly, r))
        /\ toast' = "none"
        /\ last' = NoLast
        /\ UNCHANGED <<editorLastAnalyzedText, isProcessingSuggestions,
                       finishTimers, hung, isLoading, gestures>>

\* the 1500 ms of the debounce of the current checkText have passed
DebouncedCheckFires ==
    /\ pendingCheck.pending
    /\ CheckFires(pendingCheck.text,
                  ReturnsEarly(pendingCheck.text, Rendered),
                  [Rendered EXCEPT !.pendingCheck = NoCall])

\* the same for a call left waiting on an earlier checkText instance
OrphanCheckFires(o) ==
    /\ o \in orphanChecks
    /\ CheckFires(o.text, o.returnsEarly,
                  [Rendered EXCEPT !.orphanChecks = orphanChecks \ {o}])

RemoveAt(list, i) == SubSeq(list, 1, i - 1) \o SubSeq(list, i + 1, Len(list))

\* the continuation of the request for inFlight[i], given what it sets
\* before the finally block resets isChecking
Continuation(i, r, seen, shown) ==
    /\ ~hung
    /\ i \in 1..Len(inFlight)
    /\ inFlight' = RemoveAt(inFlight, i)
    /\ Commit([r EXCEPT !.isChecking = FALSE])
    /\ last' = seen
    /\ toast' = shown
    /\ UNCHANGED <<editorLastAnalyzedText, isProcessingSuggestions,
                   finishTimers, hung, isLoading, gestures>>

\* invoke resolved with data: an array of raw suggestions
ResponseArrives(i, rawList) ==
    /\ i \in 1..Len(inFlight)
    /\ Continuation(i,
          [Rendered EXCEPT
              !.suggestions = Validate(rawList, inFlight[i]),
              !.lastAnalyzedText = inFlight[i],
              !.hasCompletedAnalysis = TRUE],
          Last("response", inFlight[i], rawList, "data", -1, -1, content,
               0, Busy, << >>),
          "none")

\* invoke resolved with data that is no array: Array.isArray(data) ? data : []
ResponseNotArray(i) ==
    /\ i \in 1..Len(inFlight)
    /\ Continuation(i,
          [Rendered EXCEPT
              !.suggestions = Validate(<< >>, inFlight[i]),
              !.lastAnalyzedText = inFlight[i],
              !.hasCompletedAnalysis = TRUE],
          Last("response", inFlight[i], << >>, "notArray", -1, -1, content,
               0, Busy, << >>),
          "none")

\* ResponseError clearing what the hook remembers of the last analysis, as
\* clearSuggestions does
ResponseErrorClearsAnalysis(i, aboutApiKey) ==
    /\ i \in 1..Len(inFlight)
    /\ Continuation(i,
          [Rendered EXCEPT !.suggestions = << >>,
                           !.lastAnalyzedText = << >>,
                           !.hasCompletedAnalysis = FALSE],
          Last("response", inFlight[i], << >>, "error", -1, -1, content, 0,
               Busy, << >>),
          IF aboutApiKey THEN "Configuration Error"
          ELSE "Grammar Check Error")

\* invoke resolved with error: a toast by the kind of message, the list
\* is emptied
ResponseError(i, aboutApiKey) ==
    /\ i \in 1..Len(inFlight)
    /\ Continuation(i,
          [Rendered EXCEPT !.suggestions = << >>],
          Last("response", inFlight[i], << >>, "error", -1, -1, content, 0,
               Busy, << >>),
          IF aboutApiKey THEN "Configuration Error"
          ELSE "Grammar Check Error")

\* invoke rejected, or the chain threw: the catch block
ResponseThrows(i) ==
    /\ i \in 1..Len(inFlight)
    /\ Continuation(i,
          [Rendered EXCEPT !.suggestions = << >>],
          Last("response", inFlight[i], << >>, "thrown", -1, -1, content, 0,
               Busy, << >>),
          "Error: failed to check grammar")

\* ------------------------------------------------------------------------
\* The accept handlers on small inputs
\* ------------------------------------------------------------------------

MaxLen == 2

Alphabet == {"a", "A", " ", "."}

SmallTexts == UNION {[1..n -> Alphabet] : n \in 0..MaxLen}

Originals ==
    {<<"a">>, <<"A">>, <<" ">>, <<".">>, <<"a","a">>, <<"a"," ">>,
     <<" ","a">>, <<"a",".">>, <<"a"," ","a">>}

Corrections == {<<"b">>, <<"a","a">>}

\* a text the hook analysed before the page's text was cut down to a small one
TextA == <<"t","h","e"," ","q","i","c","k"," ","f","o","x"," ","r","u","n","s"," ","f","a","s","t">>

\* one stored suggestion, its span and original being whatever an analysis
\* of an earlier text left: the span may lie off the text it is applied to
SingleCases ==
    {[content |-> t, suggestions |-> << Sugg(0, st, en, o, c) >>] :
        t \in SmallTexts, st \in 0..MaxLen, en \in 1..(MaxLen + 1),
        o \in Originals, c \in Corrections}

\* two stored suggestions of an analysis of the very text shown
FreshPairCases ==
    {[content |-> t,
      suggestions |-> << Sugg(0, s1, e1, Substring(t, s1, e1), c1),
                         Sugg(1, s2, e2, Substring(t, s2, e2), c2) >>] :
        t \in SmallTexts \ {<< >>},
        s1 \in 0..MaxLen, e1 \in 1..MaxLen, s2 \in 0..MaxLen, e2 \in 1..MaxLen,
        c1 \in Corrections, c2 \in Corrections}

TheQickFox == <<"T","h","e"," ","q","i","c","k"," ","f","o","x">>

CategoryOfCats == <<"c","a","t","e","g","o","r","y"," ","o","f"," ","c","a","t","s">>

ABC == <<"a"," ","b"," ","c">>

ExampleCases ==
    {[content |-> TheQickFox,
      suggestions |-> << Sugg(0, 0, 4, <<"q","i","c","k">>, <<"q","u","i","c","k">>) >>],
     [content |-> CategoryOfCats,
      suggestions |-> << Sugg(0, 0, 3, <<"c","a","t">>, <<"d","o","g">>) >>],
     [content |-> CategoryOfCats,
      suggestions |-> << Sugg(0, 1, 4, <<"c","a","t">>, <<"d","o","g">>) >>],
     [content |-> ABC,
      suggestions |-> << Sugg(0, 0, 1, <<"a">>, <<"a","a">>),
                         Sugg(1, 4, 5, <<"c">>, <<"c","c">>) >>],
     \* the word stands three times, the span names the last one
     [content |-> <<"a"," ","a"," ","a">>,
      suggestions |-> << Sugg(0, 4, 5, <<"a">>, <<"b">>) >>],
     \* the span is one off and the word stands on both sides of it
     [content |-> <<"a"," ","a"," ","a">>,
      suggestions |-> << Sugg(0, 1, 2, <<"a">>, <<"b">>) >>],
     \* two adjacent spans inside one word
     [content |-> <<"c","a","t","s">>,
      suggestions |-> << Sugg(0, 0, 3, <<"c","a","t">>, <<"d","o","g">>),
                         Sugg(1, 3, 4, <<"s">>, <<"z">>) >>],
     \* the span fits, the case differs
     [content |-> <<"T","h","e"," ","Q","i","c","k"," ","f","o","x">>,
      suggestions |-> << Sugg(0, 4, 8, <<"q","i","c","k">>, <<"q","u","i","c","k">>) >>]}

\* what the hook's filter chain lets into the store, in the order it leaves
\* them
Storable(list) ==
    /\ \A k \in 1..Len(list) :
          /\ list[k].position.start >= 0
          /\ list[k].position.start < list[k].position.end
          /\ Truthy(list[k].original)
          /\ list[k].original # list[k].correction
    /\ \A j, k \in 1..Len(list) :
          j < k =>
            /\ list[j].position.start <= list[k].position.start
            /\ ~(/\ list[j].position = list[k].position
                 /\ list[j].original = list[k].original)

ApplyCases ==
    {c \in SingleCases \cup FreshPairCases \cup ExampleCases :
        Storable(c.suggestions)}

InitApply ==
    /\ \E c \in ApplyCases :
          /\ content = c.content
          /\ suggestions = c.suggestions
    /\ editorLastAnalyzedText = << >>
    /\ isProcessingSuggestions = FALSE
    /\ isChecking = FALSE
    /\ hookLastAnalyzedText = TextA
    /\ hookIsProcessingSuggestions = FALSE
    /\ hasCompletedAnalysis = TRUE
    /\ pendingCheck = NoCall
    /\ orphanChecks = {}
    /\ inFlight = << >>
    /\ finishTimers = 0
    /\ toast = "none"
    /\ hung = FALSE
    /\ isLoading = FALSE
    /\ gestures = 0
    /\ last = NoLast

NextApply ==
    \/ \E k \in 1..Len(suggestions) : HandleAcceptSuggestion(k)
    \/ \E k \in 1..Len(suggestions) : HandleRejectSuggestion(k)
    \/ HandleAcceptAllSuggestions
    \/ FinishProcessing

SpecApply == InitApply /\ [][NextApply]_vars

\* ------------------------------------------------------------------------
\* Properties of the accept handlers (checked under SpecApply)
\* ------------------------------------------------------------------------

\* text[a:b] for 0 <= a <= b <= len(text)
Slice(text, a, b) == SubSeq(text, a + 1, b)

\* the offsets at which word stands in text, character for character
ExactOffsets(text, word) ==
    {i \in 0..(Len(text) - Len(word)) : Slice(text, i, i + Len(word)) = word}

\* the offsets at which word stands in text when letter case is ignored
OffsetsIgnoringCase(text, word) ==
    {i \in 0..(Len(text) - Len(word)) :
        ToLowerCase(Slice(text, i, i + Len(word))) = ToLowerCase(word)}

SpanInText(s, text) ==
    /\ 0 <= s.position.start
    /\ s.position.start < s.position.end
    /\ s.position.end <= Len(text)

SpanIsExact(s, text) ==
    /\ SpanInText(s, text)
    /\ Slice(text, s.position.start, s.position.end) = s.original

AcceptedOne == last.op = "acceptOne"

AcceptedAll == last.op = "acceptAll"

\* C1: when the suggestion's span lies in the text and text[start:end] is
\* its original, accept-one finds it and sets the text to
\* text[:start] + correction + text[end:], wherever else the original stands.
C1_ExactSpanIsSpliced ==
    AcceptedOne /\ SpanIsExact(last.args[1], last.text) =>
        LET s == last.args[1]
            spliced == Slice(last.text, 0, s.position.start) \o s.correction
                         \o Slice(last.text, s.position.end, Len(last.text))
        IN  /\ last.kind = "found"
            /\ last.newText = spliced
            /\ content = spliced

\* C1 witness: an exact span was accepted while the original also stands
\* earlier in the text
C1_Witness ==
    /\ AcceptedOne
    /\ SpanIsExact(last.args[1], last.text)
    /\ \E i \in ExactOffsets(last.text, last.args[1].original) :
          i < last.args[1].position.start
    /\ content # last.text

\* C2 as stated: when the original stands nowhere in the text (character
\* for character), accept-one finds nothing and leaves the text as it was.
C2_AbsentOriginalNotFound ==
    AcceptedOne /\ ExactOffsets(last.text, last.args[1].original) = {} =>
        /\ last.kind # "found"
        /\ last.newText = last.text
        /\ content = last.text

\* C2 amended: when the original, trimmed, stands nowhere in the text even
\* with letter case ignored, accept-one reports not found (or an invalid
\* position) and leaves the text as it was.
C2_AbsentIgnoringCaseNotFound ==
    AcceptedOne
      /\ OffsetsIgnoringCase(last.text, Trim(last.args[1].original)) = {} =>
        /\ last.kind \in {"notfound", "invalid"}
        /\ last.newText = last.text
        /\ content = last.text

\* C2 witness: the span lies in the text, the search ran and found nothing
C2_Witness ==
    /\ AcceptedOne
    /\ OffsetsIgnoringCase(last.text, Trim(last.args[1].original)) = {}
    /\ SpanInText(last.args[1], last.text)
    /\ last.kind = "notfound"
    /\ Len(last.calls) = 1

\* the original is a run of word characters, the stated span has its length
\* and is not where it stands
ShiftedSpan(s, text) ==
    /\ Truthy(s.original)
    /\ \A k \in 1..Len(s.original) : IsWordChar(s.original[k])
    /\ s.position.end - s.position.start = Len(s.original)
    /\ s.position.start \notin ExactOffsets(text, s.original)

TheOffset(offsets) == CHOOSE i \in offsets : TRUE

\* C3 as stated: a span shifted by a constant off the one place where the
\* original stands is corrected to that place.
C3_ShiftedSpanRecovered ==
    AcceptedOne /\ ShiftedSpan(last.args[1], last.text)
      /\ Cardinality(ExactOffsets(last.text, last.args[1].original)) = 1 =>
        LET at == TheOffset(ExactOffsets(last.text, last.args[1].original))
        IN  /\ last.kind = "found"
            /\ last.start = at
            /\ last.end = at + Len(last.args[1].original)

\* word stands at offset i of text as a whole word
WholeWordAt(text, word, i) ==
    /\ \A k \in 1..Len(word) : IsWordChar(word[k])
    /\ i = 0 \/ ~IsWordChar(text[i])
    /\ i + Len(word) = Len(text) \/ ~IsWordChar(text[i + Len(word) + 1])

\* C3 amended: a span that lies in the text and is shifted by a constant off
\* the one place where the original stands (letter case ignored), the
\* original being a whole word there, is corrected to that place; for
\* "The qick fox" and qick at [0,4) the place is [4,8).
C3_ShiftedWholeWordRecovered ==
    AcceptedOne /\ ShiftedSpan(last.args[1], last.text)
      /\ SpanInText(last.args[1], last.text)
      /\ Cardinality(ExactOffsets(last.text, last.args[1].original)) = 1
      /\ Cardinality(OffsetsIgnoringCase(last.text, last.args[1].original)) = 1
      /\ WholeWordAt(last.text, last.args[1].original,
                     TheOffset(ExactOffsets(last.text, last.args[1].original)))
      =>
        LET at == TheOffset(ExactOffsets(last.text, last.args[1].original))
        IN  /\ last.kind = "found"
            /\ last.start = at
            /\ last.end = at + Len(last.args[1].original)
            /\ (last.text = TheQickFox => last.start = 4 /\ last.end = 8)

\* C3 witness: "The qick fox" with qick stated at [0,4) was resolved to [4,8)
C3_Witness ==
    /\ AcceptedOne
    /\ last.text = TheQickFox
    /\ last.args[1].position = [start |-> 0, end |-> 4]
    /\ last.start = 4
    /\ last.end = 8
    /\ Len(last.calls) = 1

\* a match of a findWordBoundaries call does not lie inside a longer word
NotInsideLongerWord(text, m) ==
    m.start < m.end =>
        /\ IsWordChar(text[m.start + 1]) =>
              (m.start = 0 \/ ~IsWordChar(text[m.start]))
        /\ IsWordChar(text[m.end]) =>
              (m.end = Len(text) \/ ~IsWordChar(text[m.end + 1]))

CallsOfLast == {last.calls[k] : k \in 1..Len(last.calls)}

MatchesOf(call) == {call.matches[k] : k \in 1..Len(call.matches)}

IsCatInCategoryOfCats(call) ==
    call.text = CategoryOfCats /\ call.hint = DefaultStartSearchPos /\ call.word = <<"c","a","t">>

\* C4 as stated: no match of findWordBoundaries lies inside a longer word,
\* and for "category of cats" and cat it returns the one match at offset 12.
C4_OnlyTheMatchAtTwelve ==
    \A call \in CallsOfLast :
        /\ \A m \in MatchesOf(call) : NotInsideLongerWord(call.text, m)
        /\ IsCatInCategoryOfCats(call) =>
              /\ Len(call.matches) = 1
              /\ call.matches[1].start = 12

\* C4 amended: no match of findWordBoundaries lies inside a longer word, and
\* for "category of cats" and cat it returns no match at all (the cat at
\* offset 12 lies inside cats).
C4_NoMatchInsideLongerWord ==
    \A call \in CallsOfLast :
        /\ \A m \in MatchesOf(call) : NotInsideLongerWord(call.text, m)
        /\ IsCatInCategoryOfCats(call) => call.matches = << >>

\* C4 witness: findWordBoundaries was called for cat in "category of cats"
C4_Witness ==
    \E call \in CallsOfLast :
        /\ IsCatInCategoryOfCats(call)
        /\ call.returned

Disjoint(a, b) ==
    a.position.end <= b.position.start \/ b.position.end <= a.position.start

\* every span of the batch lies in the text over its original, and no two
\* spans share a character
ExactDisjointBatch(list, text) ==
    /\ \A k \in 1..Len(list) : SpanIsExact(list[k], text)
    /\ \A j, k \in 1..Len(list) : j # k => Disjoint(list[j], list[k])

\* text with every span of an exact, disjoint batch replaced by its
\* correction, all at once: the spans are cut out of the unchanged text
RECURSIVE ReplacedFrom(_, _, _)
ReplacedFrom(text, list, from) ==
    LET next == {k \in 1..Len(list) : list[k].position.start >= from}
        k == CHOOSE j \in next :
                \A i \in next : list[j].position.start <= list[i].position.start
    IN  IF next = {} THEN Slice(text, from, Len(text))
        ELSE Slice(text, from, list[k].position.start) \o list[k].correction
               \o ReplacedFrom(text, list, list[k].position.end)

\* C7 as stated, for the runs of accept-all that return: a batch of
\* disjoint spans that each lie over their original is applied whole, the
\* text being the one with every span replaced at once, appliedCount the
\* size of the batch; "a b c" with a->aa at [0,1) and c->cc at [4,5) gives
\* "aa b cc" and 2.
C7_ExactBatchAppliedWhole ==
    AcceptedAll /\ last.kind # "hang"
      /\ ExactDisjointBatch(last.args, last.text) =>
        /\ last.newText = ReplacedFrom(last.text, last.args, 0)
        /\ last.appliedCount = Len(last.args)

\* C8 as stated: accept-one and accept-all return for every text and every
\* suggestion with a non-empty original; no handler is left in a loop that
\* never exits.
C8_HandlersReturn ==
    /\ ~hung
    /\ (AcceptedOne \/ AcceptedAll)
         /\ (\A k \in 1..Len(last.args) : Truthy(last.args[k].original)) =>
           /\ last.kind # "hang"
           /\ \A call \in CallsOfLast : call.returned

\* ------------------------------------------------------------------------
\* The response of one request and the filter chain (SpecValidate)
\* ------------------------------------------------------------------------

MaxBatch == 2

TextC == <<"a"," ","b"," ","c"," ","d"," ","e"," ","f"," ","g"," ","h"," ","i"," ","j"," ","k">>

Raw(shaped, start, end, original, correction, explanation) ==
    [shaped |-> shaped, position |-> [start |-> start, end |-> end],
     original |-> original, correction |-> correction,
     explanation |-> explanation]

Qick == <<"q","i","c","k">>

Quick == <<"q","u","i","c","k">>

\* raw entries that pass every test of the filter
SoundEntries(text) ==
    {Raw(TRUE, st, en, o, c, <<"e">>) :
        st \in {0, 4}, en \in {8, Len(text)}, o \in {Qick, <<"a">>},
        c \in {Quick, <<"Q","i","c","k">>}}

\* raw entries that fail one test each
FlawedEntries(text) ==
    {Raw(FALSE, 4, 8, Qick, Quick, <<"e">>),
     Raw(TRUE, -1, 8, Qick, Quick, <<"e">>),
     Raw(TRUE, 4, Len(text) + 1, Qick, Quick, <<"e">>),
     Raw(TRUE, 4, 4, Qick, Quick, <<"e">>),
     Raw(TRUE, 8, 4, Qick, Quick, <<"e">>),
     Raw(TRUE, 4, 8, << >>, Quick, <<"e">>),
     Raw(TRUE, 4, 8, Qick, << >>, <<"e">>),
     Raw(TRUE, 4, 8, Qick, Quick, << >>),
     Raw(TRUE, 4, 8, Qick, Qick, <<"e">>),
     Raw(TRUE, 0, Len(text), Quick, Quick, <<"e">>)}

RawEntries(text) == SoundEntries(text) \cup FlawedEntries(text)

RawBatches(text) == UNION {[1..n -> RawEntries(text)] : n \in 0..MaxBatch}

\* a request for the text of the page is awaiting its response
InitValidate ==
    /\ content \in {TextA, TextC}
    /\ editorLastAnalyzedText = content
    /\ isProcessingSuggestions = FALSE
    /\ suggestions = << >>
    /\ isChecking = TRUE
    /\ hookLastAnalyzedText = << >>
    /\ hookIsProcessingSuggestions = FALSE
    /\ hasCompletedAnalysis = FALSE
    /\ pendingCheck = NoCall
    /\ orphanChecks = {}
    /\ inFlight = << content >>
    /\ finishTimers = 0
    /\ toast = "none"
    /\ hung = FALSE
    /\ isLoading = FALSE
    /\ gestures = 0
    /\ last = NoLast

NextValidate ==
    \/ \E i \in 1..Len(inFlight) :
          \E rawList \in RawBatches(inFlight[i]) : ResponseArrives(i, rawList)
    \/ \E i \in 1..Len(inFlight) : ResponseNotArray(i)
    \/ \E i \in 1..Len(inFlight) : \E k \in BOOLEAN : ResponseError(i, k)
    \/ \E i \in 1..Len(inFlight) : ResponseThrows(i)

SpecValidate == InitValidate /\ [][NextValidate]_vars

GotData == last.op = "response" /\ last.kind = "data"

\* well-formed and in bounds, as the claim and spec 4.2 put it
WellFormedInBounds(raw, text) ==
    /\ raw.shaped
    /\ 0 <= raw.position.start
    /\ raw.position.start < raw.position.end
    /\ raw.position.end <= Len(text)
    /\ raw.original # << >>
    /\ raw.correction # << >>
    /\ raw.explanation # << >>
    /\ raw.original # raw.correction

SameSpanAndOriginal(a, b) ==
    a.position = b.position /\ a.original = b.original

\* the stored entry with the fields the response gave it
SameEntry(kept, raw) ==
    /\ SameSpanAndOriginal(kept, raw)
    /\ kept.correction = raw.correction
    /\ kept.explanation = raw.explanation

\* C5: of the entries of a response, the hook stores none with original
\* equal to correction and none with start >= end, stores nothing the
\* response did not hold, keeps every well-formed entry within the bounds of
\* the text (it or an entry of the same span and original), and keeps one
\* entry only of those that share start, end and original.
C5_ValidateKeepsTheWellFormedOnce ==
    GotData =>
        /\ \A k \in 1..Len(suggestions) :
              /\ suggestions[k].original # suggestions[k].correction
              /\ suggestions[k].position.start < suggestions[k].position.end
              /\ \E j \in 1..Len(last.args) :
                    /\ WellFormedInBounds(last.args[j], last.text)
                    /\ SameEntry(suggestions[k], last.args[j])
        /\ \A j \in 1..Len(last.args) :
              WellFormedInBounds(last.args[j], last.text) =>
                \E k \in 1..Len(suggestions) :
                    SameSpanAndOriginal(suggestions[k], last.args[j])
        /\ \A j, k \in 1..Len(suggestions) :
              j # k => ~SameSpanAndOriginal(suggestions[j], suggestions[k])

\* C5 witness: a response held two well-formed entries of the same span and
\* original with different corrections, and one of them is stored
C5_Witness ==
    /\ GotData
    /\ Len(last.args) = 2
    /\ WellFormedInBounds(last.args[1], last.text)
    /\ WellFormedInBounds(last.args[2], last.text)
    /\ SameSpanAndOriginal(last.args[1], last.args[2])
    /\ last.args[1].correction # last.args[2].correction
    /\ Len(suggestions) = 1

\* the stored list as a response would carry it
AsRaw(list) ==
    [k \in 1..Len(list) |->
        Raw(TRUE, list[k].position.start, list[k].position.end,
            list[k].original, list[k].correction, list[k].explanation)]

\* C6: the filter chain run on the list it stored for a text gives that
\* list again, entry for entry and in the same order (the ids, which
\* every run assigns anew, left aside).
C6_ValidateIdempotent ==
    GotData => AsRaw(Validate(AsRaw(suggestions), last.text)) = AsRaw(suggestions)

\* C6 witness: two entries were stored in another order than the response
\* gave them
C6_Witness ==
    /\ GotData
    /\ Len(suggestions) = 2
    /\ suggestions[1].id = 1
    /\ suggestions[2].id = 0

\* ------------------------------------------------------------------------
\* The page as a whole: load, typing, debounce, requests, gestures (Spec)
\* ------------------------------------------------------------------------

\* TextA with one more letter typed
TextB == <<"t","h","e"," ","q","i","c","k"," ","f","o","x"," ","r","u","n","s"," ","f","a","s","t","t">>

\* what the document row holds: nothing yet, or a text of five words
LoadedTexts == {<< >>, TextA}

\* what the editing surface holds after a keystroke or a paste
TypedTexts == {TextA, TextB}

\* what the remote function answers, whatever text it was sent
ServerBatches ==
    {<< >>,
     << Raw(TRUE, 4, 8, Qick, Quick, <<"e">>),
        Raw(TRUE, 18, 22, <<"f","a","s","t">>,
            <<"q","u","i","c","k","l","y">>, <<"e">>) >>}

Init ==
    /\ content = << >>
    /\ editorLastAnalyzedText = << >>
    /\ isProcessingSuggestions = FALSE
    /\ suggestions = << >>
    /\ isChecking = FALSE
    /\ hookLastAnalyzedText = << >>
    /\ hookIsProcessingSuggestions = FALSE
    /\ hasCompletedAnalysis = FALSE
    /\ pendingCheck = NoCall
    /\ orphanChecks = {}
    /\ inFlight = << >>
    /\ finishTimers = 0
    /\ toast = "none"
    /\ hung = FALSE
    /\ isLoading = TRUE
    /\ gestures = 0
    /\ last = NoLast

Next ==
    \/ \E text \in LoadedTexts : LoadDocument(text)
    \/ \E text \in TypedTexts : Input(text)
    \/ \E k \in 1..Len(suggestions) : HandleAcceptSuggestion(k)
    \/ \E k \in 1..Len(suggestions) : HandleRejectSuggestion(k)
    \/ HandleAcceptAllSuggestions
    \/ FinishProcessing
    \/ DebouncedCheckFires
    \/ \E o \in orphanChecks : OrphanCheckFires(o)
    \/ \E i \in 1..Len(inFlight) :
          \E rawList \in ServerBatches : ResponseArrives(i, rawList)
    \/ \E i \in 1..Len(inFlight) : ResponseNotArray(i)
    \/ \E i \in 1..Len(inFlight) : \E k \in BOOLEAN : ResponseError(i, k)
    \/ \E i \in 1..Len(inFlight) : ResponseThrows(i)

Spec == Init /\ [][Next]_vars

\* C9 as stated: no accept gesture goes on to rewrite the text while a
\* processing flag set by an earlier accept gesture is still set.
C9_SingleFlightApplication ==
    (AcceptedOne \/ AcceptedAll) /\ last.newText # last.text => ~last.busy

\* C10 as stated: at most one analysis request awaits its response at any
\* time.
C10_OneRequestInFlight == Len(inFlight) <= 1

\* C11 as stated: a response with data that is processed while the hook's
\* processing flag is set neither replaces the stored suggestions nor sets
\* hasCompletedAnalysis.
C11_ResponseWhileBusyNotApplied ==
    [][(last'.op = "response" /\ last'.kind = "data"
            /\ hookIsProcessingSuggestions)
        => /\ suggestions' = suggestions
           /\ (hasCompletedAnalysis' => hasCompletedAnalysis)]_vars

\* C12 as stated: the stored suggestions are replaced only by a batch that
\* was computed for the text the page shows when the response is processed.
C12_StaleResponseIgnored ==
    GotData => last.text = last.newText

\* ------------------------------------------------------------------------
\* findWordBoundaries on its own
\* ------------------------------------------------------------------------

MaxHint == 4

AAA == <<"a"," ","a"," ","a">>

LocateTexts == SmallTexts \cup {AAA, CategoryOfCats}

\* a page showing one of the texts
InitLocate ==
    /\ content \in LocateTexts
    /\ editorLastAnalyzedText = content
    /\ isProcessingSuggestions = FALSE
    /\ suggestions = << >>
    /\ isChecking = FALSE
    /\ hookLastAnalyzedText = << >>
    /\ hookIsProcessingSuggestions = FALSE
    /\ hasCompletedAnalysis = FALSE
    /\ pendingCheck = NoCall
    /\ orphanChecks = {}
    /\ inFlight = << >>
    /\ finishTimers = 0
    /\ toast = "none"
    /\ hung = FALSE
    /\ isLoading = FALSE
    /\ gestures = 0
    /\ last = NoLast

\* findWordBoundaries(content, word, startSearchPos) is evaluated; a call
\* that never returns leaves the page hung
FindWordBoundariesCalled(word, startSearchPos) ==
    LET Called(call) ==
            /\ last' = Last("locate", content, << word >>,
                            IF call.returned THEN "returned" ELSE "hang",
                            -1, -1, content, 0, Busy, << call >>)
            /\ hung' = ~call.returned
    IN  /\ ~hung
        /\ Called(LocateCall(content, word, startSearchPos))
        /\ UNCHANGED <<content, editorLastAnalyzedText,
                       isProcessingSuggestions, suggestions, isChecking,
                       hookLastAnalyzedText, hookIsProcessingSuggestions,
                       hasCompletedAnalysis, pendingCheck, orphanChecks,
                       inFlight, finishTimers, toast, isLoading, gestures>>

NextLocate ==
    \E word \in Originals \cup {<<"c","a","t">>} :
        \E startSearchPos \in 0..MaxHint :
            FindWordBoundariesCalled(word, startSearchPos)

SpecLocate == InitLocate /\ [][NextLocate]_vars

\* whether the matches of a call stand in order of distance from the hint,
\* the nearer first and, at the same distance, the lower offset first
OrderedByDistance(call) ==
    \A i \in 1..Len(call.matches) : \A j \in 1..Len(call.matches) :
        i < j =>
            \/ Abs(call.matches[i].start - call.hint)
                  < Abs(call.matches[j].start - call.hint)
            \/ /\ Abs(call.matches[i].start - call.hint)
                     = Abs(call.matches[j].start - call.hint)
               /\ call.matches[i].start < call.matches[j].start

Typed(type, raw) ==
    [type |-> type, shaped |-> raw.shaped, position |-> raw.position,
     original |-> raw.original, correction |-> raw.correction,
     explanation |-> raw.explanation]

NotFoundIndex == -1

\* String.prototype.indexOf
IndexOf(text, word) ==
    LET hits == {i \in 0..(Len(text) - Len(word)) :
                    Substring(text, i, i + Len(word)) = word}
    IN  IF hits = {} THEN NotFoundIndex
        ELSE CHOOSE i \in hits : \A j \in hits : i <= j

Served(kept, entry) == [kept |-> kept, entry |-> entry]

\* ServeEntry comparing original and correction as they stand
ServeEntryStrict(entry, text) ==
    LET originalLower == Trim(ToLowerCase(entry.original))
        actualText == Substring(text, entry.position.start,
                                entry.position.end)
        actualLower == Trim(ToLowerCase(actualText))
        index == IndexOf(ToLowerCase(text), originalLower)
        Compared(e) ==
            IF e.original = e.correction
            THEN Served(FALSE, e) ELSE Served(TRUE, e)
    IN  IF \/ ~entry.type
           \/ ~HasNumericPosition(entry)
           \/ ~Truthy(entry.original)
           \/ ~Truthy(entry.correction)
           \/ ~Truthy(entry.explanation)
        THEN Served(FALSE, entry)
        ELSE IF \/ entry.position.start < 0
                \/ entry.position.end > Len(text)
                \/ entry.position.start >= entry.position.end
        THEN Served(FALSE, entry)
        ELSE IF actualLower = originalLower THEN Compared(entry)
        ELSE IF index # NotFoundIndex
        THEN Compared([entry EXCEPT
                 !.position = [start |-> index,
                               end |-> index + Len(originalLower)]])
        ELSE Served(FALSE, entry)

\* the callback of the function's first .filter: whether the entry is kept,
\* and the entry as the callback leaves it (it moves the position of an
\* entry whose span does not hold the original)
ServeEntry(entry, text) ==
    LET originalLower == Trim(ToLowerCase(entry.original))
        actualText == Substring(text, entry.position.start,
                                entry.position.end)
        actualLower == Trim(ToLowerCase(actualText))
        index == IndexOf(ToLowerCase(text), originalLower)
        Compared(e) ==
            IF Trim(ToLowerCase(e.original)) = Trim(ToLowerCase(e.correction))
            THEN Served(FALSE, e) ELSE Served(TRUE, e)
    IN  IF \/ ~entry.type
           \/ ~HasNumericPosition(entry)
           \/ ~Truthy(entry.original)
           \/ ~Truthy(entry.correction)
           \/ ~Truthy(entry.explanation)
        THEN Served(FALSE, entry)
        ELSE IF \/ entry.position.start < 0
                \/ entry.position.end > Len(text)
                \/ entry.position.start >= entry.position.end
        THEN Served(FALSE, entry)
        ELSE IF actualLower = originalLower THEN Compared(entry)
        ELSE IF index # NotFoundIndex
        THEN Compared([entry EXCEPT
                 !.position = [start |-> index,
                               end |-> index + Len(originalLower)]])
        ELSE Served(FALSE, entry)

RECURSIVE ServeFilterFrom(_, _, _)
ServeFilterFrom(list, text, k) ==
    LET Kept(served) ==
            IF served.kept
            THEN << served.entry >> \o ServeFilterFrom(list, text, k + 1)
            ELSE ServeFilterFrom(list, text, k + 1)
    IN  IF k > Len(list) THEN << >>
        ELSE Kept(ServeEntry(list[k], text))

\* the function's second .filter: an earlier entry has the same start and
\* end
ServeIsDuplicate(list, k) ==
    \E j \in 1..(k - 1) :
        /\ list[j].position.start = list[k].position.start
        /\ list[j].position.end = list[k].position.end

RECURSIVE ServeDedupFrom(_, _)
ServeDedupFrom(list, k) ==
    IF k > Len(list) THEN << >>
    ELSE IF ServeIsDuplicate(list, k) THEN ServeDedupFrom(list, k + 1)
         ELSE << list[k] >> \o ServeDedupFrom(list, k + 1)

MinServeChars == 10

\* the body of the response for a text and the array parsed out of the
\* completion: filter, filter, sort
ServeValidate(parsed, text) ==
    IF Len(Trim(text)) < MinServeChars THEN << >>
    ELSE SortAscending(ServeDedupFrom(ServeFilterFrom(parsed, text, 1), 1))

\* invoke resolved with the array the function made of a completion
ServedResponseArrives(i, parsed) ==
    /\ i \in 1..Len(inFlight)
    /\ Continuation(i,
          [Rendered EXCEPT
              !.suggestions =
                  Validate(ServeValidate(parsed, inFlight[i]), inFlight[i]),
              !.lastAnalyzedText = inFlight[i],
              !.hasCompletedAnalysis = TRUE],
          Last("response", inFlight[i], parsed, "served", -1, -1, content,
               0, Busy, << >>),
          "none")

QickSpace == <<"q","i","c","k"," ">>

\* what a completion may hold: the raw entries with a type, one without, and
\* one whose correction is the original with a space after it
TypedEntries(text) ==
    {Typed(TRUE, e) : e \in RawEntries(text)}
        \cup {Typed(FALSE, Raw(TRUE, 4, 8, Qick, Quick, <<"e">>)),
              Typed(TRUE, Raw(TRUE, 4, 8, Qick, QickSpace, <<"e">>))}

TypedBatches(text) ==
    UNION {[1..n -> TypedEntries(text)] : n \in 0..MaxBatch}

NextServe ==
    \/ \E i \in 1..Len(inFlight) :
          \E parsed \in TypedBatches(inFlight[i]) :
              ServedResponseArrives(i, parsed)
    \/ \E i \in 1..Len(inFlight) : \E k \in BOOLEAN : ResponseError(i, k)
    \/ \E i \in 1..Len(inFlight) : ResponseThrows(i)

SpecServe == InitValidate /\ [][NextServe]_vars

\* original and correction are the same once lower-cased and trimmed
SameModuloCaseAndSpace(s) ==
    Trim(ToLowerCase(s.original)) = Trim(ToLowerCase(s.correction))

Clamped(n, length) == Max(0, Min(n, length))

\* well-formed, and its span is not empty once both bounds are clamped
WellFormedOnceClamped(raw, text) ==
    /\ raw.shaped
    /\ Truthy(raw.original)
    /\ Truthy(raw.correction)
    /\ Truthy(raw.explanation)
    /\ raw.original # raw.correction
    /\ Clamped(raw.position.start, Len(text))
          < Clamped(raw.position.end, Len(text))

\* C15 as stated: a raw entry with a bound outside [0, textLength] is kept
\* with the bound clamped whenever the clamped span has start < end.
C15_OutOfRangeBoundClamped ==
    GotData =>
        \A k \in 1..Len(last.args) :
            WellFormedOnceClamped(last.args[k], last.text) =>
                \E j \in 1..Len(suggestions) :
                    /\ suggestions[j].position.start
                          = Clamped(last.args[k].position.start,
                                    Len(last.text))
                    /\ suggestions[j].position.end
                          = Clamped(last.args[k].position.end,
                                    Len(last.text))
                    /\ suggestions[j].original = last.args[k].original

\* the text a pass of the forEach left: the text the next pass searched, or
\* the text the handler ended with
TextAfterPass(k) ==
    IF k < Len(last.calls) THEN last.calls[k + 1].text ELSE last.newText

\* the passes that spliced a correction in
SplicedPasses ==
    {k \in 1..Len(last.calls) :
        last.calls[k].returned /\ Len(last.calls[k].matches) > 0}

\* the suggestion the k-th pass was about
SuggestionOfPass(k) == SortDescending(last.args)[k]

\* C16: accept-all skips a suggestion it cannot reconcile without changing
\* the text, and appliedCount is the number of suggestions spliced; when
\* appliedCount is 0 the text and the stored suggestions stay as they were
\* and the notice is the failure that asks to refresh the suggestions, never
\* the success.
C16_SkipsCountedOutAndEmptyBatchFails ==
    AcceptedAll =>
        /\ last.appliedCount = Cardinality(SplicedPasses)
        /\ \A k \in 1..Len(last.calls) :
              /\ (last.calls[k].returned /\ last.calls[k].matches = << >>)
                    => TextAfterPass(k) = last.calls[k].text
              /\ ReconcileOne(last.calls[k].text, SuggestionOfPass(k)).kind
                       = "notfound"
                    => TextAfterPass(k) = last.calls[k].text
        /\ last.appliedCount = 0 =>
              /\ content = last.text
              /\ suggestions = last.args
              /\ toast # "All suggestions applied"
              /\ last.kind # "hang" => toast = "No suggestions applied"

\* accept-all of a batch none of whose suggestions could be reconciled
C16_Witness ==
    /\ AcceptedAll
    /\ last.kind = "notfound"
    /\ Len(last.args) > 0
    /\ last.appliedCount = 0
    /\ \A k \in 1..Len(last.calls) :
          ReconcileOne(last.calls[k].text, SuggestionOfPass(k)).kind
              = "notfound"
    /\ toast = "No suggestions applied"

\* C17 as stated: accept-all of a single suggestion ends with the text
\* accept-one of that suggestion ends with, and applies nothing exactly when
\* accept-one finds the suggestion nowhere.
C17_ApplyAllOfOneIsApplyOne ==
    (AcceptedAll /\ Len(last.args) = 1 /\ last.kind # "hang") =>
        /\ last.newText = ApplyOneText(last.text, last.args[1])
        /\ last.appliedCount = 0
              <=> ReconcileOne(last.text, last.args[1]).kind
                      \in {"notfound", "invalid"}

\* the step is the onInput handler (the one gesture that records no
\* operation)
TextTyped == gestures' = gestures + 1 /\ last'.op = "none"

\* the word count of the text after the step is more than the tolerance away
\* from that of the text the last analysis was made of
MovedFromLastAnalysis ==
    Abs(WordCount(content') - WordCount(hookLastAnalyzedText))
        > StaleWordTolerance

\* C18 as stated: once an analysis has completed, typing clears the stored
\* suggestions and the completed flag exactly when the word count moves more
\* than 3 away from that of the analysed text; within 3 words both stay.
C18_ClearedExactlyWhenWordCountMoved ==
    [][(TextTyped /\ hasCompletedAnalysis) =>
          IF MovedFromLastAnalysis
          THEN suggestions' = << >> /\ ~hasCompletedAnalysis'
          ELSE suggestions' = suggestions /\ hasCompletedAnalysis']_vars

\* the span of the accepted suggestion is out of the bounds of the text the
\* handler saw
SpanOutOfBounds(s, text) ==
    \/ s.position.start < 0
    \/ s.position.end > Len(text)
    \/ s.position.start >= s.position.end

\* C19: accept-one of a suggestion whose span is out of the bounds of the
\* text returns, applies nothing, leaves the text as it was and shows the
\* notice that the position is invalid.
C19_OutOfBoundsSpanNotApplied ==
    (AcceptedOne /\ SpanOutOfBounds(last.args[1], last.text)) =>
        /\ ~hung
        /\ last.kind = "invalid"
        /\ last.appliedCount = 0
        /\ content = last.text
        /\ toast = "Error: invalid position"

\* a span reaching past the end of a text that holds the original as a word
C19_Witness ==
    /\ AcceptedOne
    /\ last.args[1].position.start >= 0
    /\ last.args[1].position.start < last.args[1].position.end
    /\ last.args[1].position.end > Len(last.text)
    /\ findWordBoundaries(last.text, last.args[1].original).returned
    /\ findWordBoundaries(last.text, last.args[1].original).matches # << >>
    /\ content = last.text

\* C20 as stated: after an accept-one that found the suggestion nowhere the
\* text is as it was and the store no longer holds the suggestion.
C20_NotFoundSuggestionDiscarded ==
    (AcceptedOne /\ last.kind \in {"notfound", "invalid"}) =>
        /\ content = last.text
        /\ \A k \in 1..Len(suggestions) : suggestions[k].id # last.args[1].id

\* the step is the continuation of a request that failed
RequestFailed == last'.op = "response" /\ last'.kind \in {"error", "thrown"}

\* C21: when a request fails the suggestion list is emptied, isChecking is
\* reset, and the failure itself schedules no call of checkText and sends no
\* request.
C21_FailureClearsAndSchedulesNothing ==
    [][RequestFailed =>
          /\ suggestions' = << >>
          /\ ~isChecking'
          /\ pendingCheck' = pendingCheck
          /\ orphanChecks' = orphanChecks
          /\ Len(inFlight') = Len(inFlight) - 1]_vars

\* a request failed for a text the effect "Grammar checking" would send a
\* request for, and nothing is scheduled or in flight
C21_Witness ==
    /\ last.op = "response" /\ last.kind \in {"error", "thrown"}
    /\ content = last.text
    /\ Len(Trim(content)) > MinEditorChars
    /\ WordCount(content) >= MinEditorWords
    /\ ~hasCompletedAnalysis
    /\ ~pendingCheck.pending
    /\ orphanChecks = {}
    /\ inFlight = << >>
    /\ suggestions = << >>
    /\ ~isChecking

\* C22 as stated: a response that is no array, or that carries an error,
\* ends with an empty suggestion list and a notice shown to the user, and a
\* response that is no array is not recorded as a completed analysis.
C22_InvalidResponseNoticedNotCompleted ==
    (last.op = "response" /\ last.kind \in {"notArray", "error"}) =>
        /\ suggestions = << >>
        /\ toast # "none"
        /\ last.kind = "notArray" =>
              ~(hasCompletedAnalysis /\ hookLastAnalyzedText = last.text)

\* C23 as stated: once the step of an accept-one that spliced, or of a
\* reject, is over (its effects included), the store holds the suggestions it
\* held before less the one the gesture was about; a reject leaves the text
\* and hasCompletedAnalysis as they were.
C23_ExactlyThatSuggestionRemoved ==
    [][((last'.op = "acceptOne" /\ last'.kind = "found")
            \/ last'.op = "reject")
        => /\ suggestions' = RemoveById(suggestions, last'.args[1].id)
           /\ last'.op = "reject" =>
                 /\ content' = content
                 /\ hasCompletedAnalysis' = hasCompletedAnalysis]_vars

\* the match of a call that is nearest to a span start, the lowest offset
\* among the matches equally near
NearestMatch(call, spanStart) ==
    CHOOSE m \in MatchesOf(call) :
        \A n \in MatchesOf(call) :
            \/ Abs(m.start - spanStart) < Abs(n.start - spanStart)
            \/ /\ Abs(m.start - spanStart) = Abs(n.start - spanStart)
               /\ m.start <= n.start

\* the text with the nearest match of the call replaced by the correction
SplicedAtNearest(call, s) ==
    LET At(m) == Splice(call.text, m.start, m.end, s.correction)
    IN  At(NearestMatch(call, s.position.start))

\* C24: when the search finds several matches, accept-one and accept-all
\* both take the match nearest to the stored span start and, of two matches
\* equally near, the one at the lower offset.
C24_NearestMatchLowestOffsetOnTie ==
    /\ (AcceptedOne /\ last.kind = "found" /\ last.calls # << >>) =>
          /\ last.start = NearestMatch(last.calls[1],
                                       last.args[1].position.start).start
          /\ last.end = NearestMatch(last.calls[1],
                                     last.args[1].position.start).end
          /\ content = SplicedAtNearest(last.calls[1], last.args[1])
    /\ AcceptedAll =>
          \A k \in SplicedPasses :
              TextAfterPass(k)
                  = SplicedAtNearest(last.calls[k], SuggestionOfPass(k))

\* two matches are equally near the span start
TiedMatches(call, spanStart) ==
    \E m, n \in MatchesOf(call) :
        /\ m # n
        /\ Abs(m.start - spanStart) = Abs(n.start - spanStart)
        /\ \A o \in MatchesOf(call) :
              Abs(m.start - spanStart) <= Abs(o.start - spanStart)

\* accept-one relocated a span with the word equally near on both sides
C24_Witness ==
    /\ AcceptedOne
    /\ last.kind = "found"
    /\ last.calls # << >>
    /\ TiedMatches(last.calls[1], last.args[1].position.start)

\* accept-all chose between two matches equally near
C24_WitnessAll ==
    /\ AcceptedAll
    /\ \E k \in SplicedPasses :
          TiedMatches(last.calls[k], SuggestionOfPass(k).position.start)

\* the texts the debounce timers that are running will call the body of
\* checkText with
ScheduledTexts ==
    {o.text : o \in orphanChecks}
        \cup (IF pendingCheck.pending THEN {pendingCheck.text} ELSE {})

\* C25 as stated: at any time at most one call of the body of checkText is
\* waiting on a debounce timer, and it is a call for the text the page shows.
C25_OneAttemptForLastText ==
    /\ Cardinality(orphanChecks)
          + (IF pendingCheck.pending THEN 1 ELSE 0) <= 1
    /\ \A text \in ScheduledTexts : text = content

\* C26 as stated, in the form a finite run refutes: whenever one of the two
\* processing flags is set, a timer of an accept handler is running that
\* will reset it (FinishProcessing is the only step that resets the page's
\* flag, and only the accept handlers start its timer).
C26_BusyFlagHasItsTimer ==
    (isProcessingSuggestions \/ hookIsProcessingSuggestions) =>
        finishTimers > 0

\* C27 as stated: isChecking is set exactly while a request is awaiting its
\* response.
C27_CheckingIffRequestInFlight ==
    isChecking <=> Len(inFlight) > 0

\* the two strings are the same once lower-cased and trimmed
SameIgnoringCaseAndSpace(a, b) == Trim(ToLowerCase(a)) = Trim(ToLowerCase(b))

\* after is before with the span [s, e) replaced by the correction of the
\* suggestion, the span holding its original (case and surrounding space
\* aside) and everything outside the span kept in order
ReplacedSpan(before, after, sugg, s, e) ==
    /\ 0 <= s /\ s < e /\ e <= Len(before)
    /\ SameIgnoringCaseAndSpace(Slice(before, s, e), sugg.original)
    /\ after = Slice(before, 0, s) \o sugg.correction
                   \o Slice(before, e, Len(before))

\* C28: a splice of accept-one or accept-all replaces a span of the text
\* that holds the suggestion's original, case and surrounding space aside,
\* and keeps every character outside the span in order.
C28_OnlyTheOriginalIsReplaced ==
    /\ (AcceptedOne /\ last.kind = "found") =>
          ReplacedSpan(last.text, content, last.args[1], last.start,
                       last.end)
    /\ AcceptedAll =>
          \A k \in SplicedPasses :
              \E s \in 0..Len(last.calls[k].text) :
                  \E e \in 0..Len(last.calls[k].text) :
                      ReplacedSpan(last.calls[k].text, TextAfterPass(k),
                                   SuggestionOfPass(k), s, e)

\* accept-one replaced a span found by the search
C28_Witness ==
    /\ AcceptedOne
    /\ last.kind = "found"
    /\ last.calls # << >>
    /\ content # last.text
    /\ last.start # last.args[1].position.start

\* the step is an accept-one that follows at once on an accept-one that
\* spliced, the two suggestions being the whole store before the first one
\* and lying, disjoint, over their originals in the text of that time
SecondOfAnExactPair ==
    /\ AcceptedOne
    /\ last.kind = "found"
    /\ Len(suggestions) = 1
    /\ last'.op = "acceptOne"
    /\ ExactDisjointBatch(<< last.args[1], suggestions[1] >>, last.text)

\* C29 as stated: accepting the two suggestions of an exact, disjoint pair
\* one after the other, in either order, applies both and ends with the text
\* accept-all of the pair ends with.
C29_OrderOfAcceptanceIrrelevant ==
    [][SecondOfAnExactPair =>
          LET Same(all) ==
                  /\ all.returned
                  /\ all.appliedCount = 2
                  /\ content' = all.newContent
          IN  /\ last'.kind = "found"
              /\ Same(ApplyAll(last.text,
                               << last.args[1], suggestions[1] >>))]_vars

\* C30: after an accept-all that applied at least one suggestion the store
\* is empty, the hook's lastAnalyzedText is cleared and hasCompletedAnalysis
\* is false.
C30_AcceptAllEmptiesTheStore ==
    (AcceptedAll /\ last.kind = "found") =>
        /\ suggestions = << >>
        /\ hookLastAnalyzedText = << >>
        /\ ~hasCompletedAnalysis

\* an accept-all that applied one suggestion of its batch and skipped another
C30_Witness ==
    /\ AcceptedAll
    /\ last.kind = "found"
    /\ last.appliedCount > 0
    /\ last.appliedCount < Len(last.args)
    /\ content # last.text
    /\ suggestions = << >>

====
